---- MODULE Spec2Model ----
\* The geospatial overlay pipeline of dashboard/components/map/RouteMap.tsx:
\* the RouteMap component (render selector, path and stop overlays), the
\* MapUpdater effect (bounds accumulation and the fitBounds side effect) and
\* getColorBySpeed, as a state machine over the component's props and what it
\* last rendered.
EXTENDS Integers, Sequences, FiniteSets, TLC

VARIABLES
    mounted,        \* useState(false) flag of RouteMap
    routes,         \* the routes prop: a sequence of ProcessedRoute
    selectedRoute,  \* the selectedRoute prop: <<>> for null, <<r>> for a route
    displayRoutes,  \* the array computed by the last render of RouteMap
    routesRef,      \* identity of that array (also the dep stored by MapUpdater's effect)
    overlays,       \* what displayRoutes.map(...) rendered: per route, routeLines and stopMarkers
    fitCalls,       \* number of map.fitBounds calls made by the last commit
    viewport,       \* the points of the last fitBounds call; <<>> = MapContainer's center/zoom props
    probe           \* last application of one of the inline predicates / getColorBySpeed

vars == <<mounted, routes, selectedRoute, displayRoutes, routesRef, overlays,
          fitCalls, viewport, probe>>

\* ------------------------------------------------------------------ bounds

MaxFree == 1      \* routes of arbitrary shape at the head of the routes prop
MaxRoutes == 32   \* longest routes prop
MaxText == 2      \* longest latitude/longitude text that is probed
CoordSpan == 2    \* probed flow coordinates range over -CoordSpan..CoordSpan
SpeedSpan == 2    \* probed speeds lie within SpeedSpan units of each threshold

\* --------------------------------------------------------------- JS values
\* A JavaScript value of type number | null | undefined, tagged.

Num(n) == [k |-> "num", v |-> n]
NaN == [k |-> "nan", v |-> 0]
Infinity == [k |-> "inf", v |-> 1]
NegInfinity == [k |-> "inf", v |-> -1]
Undefined == [k |-> "undefined", v |-> 0]
Null == [k |-> "null", v |-> 0]

\* ToBoolean of such a value: 0, NaN, null and undefined are falsy.
Truthy(x) == (x.k = "num" /\ x.v # 0) \/ x.k = "inf"

\* The global isNaN: ToNumber(undefined) is NaN, ToNumber(null) is 0.
isNaN(x) == x.k \in {"nan", "undefined"}

\* x !== 0
NotStrictZero(x) == ~(x.k = "num" /\ x.v = 0)

\* ------------------------------------------------------------------- text
\* A latitude/longitude text is a sequence of characters; the character "I"
\* stands for the literal Infinity. A field is [has, s]: has = FALSE is a
\* missing (undefined / null) field.

Chars == {"-", "0", "1", "2", "x", "I"}

Text(s) == [has |-> TRUE, s |-> s]
NoText == [has |-> FALSE, s |-> <<>>]

IsDigit(c) == c \in {"0", "1", "2"}
DigitVal(c) == CASE c = "0" -> 0 [] c = "1" -> 1 [] c = "2" -> 2

RECURSIVE DigitPrefix(_)
DigitPrefix(s) ==
    IF s = <<>> \/ ~IsDigit(Head(s)) THEN <<>>
    ELSE <<Head(s)>> \o DigitPrefix(Tail(s))

RECURSIVE Decimal(_)
Decimal(d) ==
    IF d = <<>> THEN 0
    ELSE 10 * Decimal(SubSeq(d, 1, Len(d) - 1)) + DigitVal(d[Len(d)])

\* parseFloat: an optional sign, then Infinity or the longest prefix of digits;
\* NaN when there is neither. Trailing characters are ignored.
parseFloat(s) ==
    LET neg == s # <<>> /\ Head(s) = "-"
        body == IF neg THEN Tail(s) ELSE s
        digits == DigitPrefix(body)
    IN  IF body # <<>> /\ Head(body) = "I"
        THEN (IF neg THEN NegInfinity ELSE Infinity)
        ELSE IF digits = <<>> THEN NaN
        ELSE Num(IF neg THEN 0 - Decimal(digits) ELSE Decimal(digits))

\* field || "0": a missing field and the empty string are falsy.
OrZero(field) == IF field.has /\ field.s # <<>> THEN field.s ELSE <<"0">>

\* ------------------------------------------------------------- data model

Coord(lat, lon) == [present |-> TRUE, lat |-> lat, lon |-> lon]
NullCoord == [present |-> FALSE, lat |-> Undefined, lon |-> Undefined]

Some(items) == [present |-> TRUE, items |-> items]
Absent == [present |-> FALSE, items |-> <<>>]

Location(lat, lon, hub) ==
    [present |-> TRUE, latitude |-> lat, longitude |-> lon, isTransportHub |-> hub]
NoLocation ==
    [present |-> FALSE, latitude |-> NoText, longitude |-> NoText, isTransportHub |-> "undefined"]

Stop(id, loc) == [id |-> id, stop |-> loc]

\* stop.stop?.latitude, stop.stop?.longitude, stop.stop?.isTransportHub
StopLatitude(stop) == IF stop.stop.present THEN stop.stop.latitude ELSE NoText
StopLongitude(stop) == IF stop.stop.present THEN stop.stop.longitude ELSE NoText
StopIsHub(stop) == stop.stop.present /\ stop.stop.isTransportHub = "true"

Variant(fc) == [flowCoordinates |-> fc]

MkRoute(id, shape) ==
    [id |-> id, avgSpeed |-> shape.avgSpeed, stops |-> shape.stops, routes |-> shape.routes]

\* ------------------------------------------------- coordinate predicates
\* The five inline validity checks, one per call site.

\* MapUpdater, stops: lat && lon && !isNaN(lat) && !isNaN(lon) && lat !== 0 && lon !== 0
BoundsStopValid(lat, lon) ==
    /\ Truthy(lat) /\ Truthy(lon)
    /\ ~isNaN(lat) /\ ~isNaN(lon)
    /\ NotStrictZero(lat) /\ NotStrictZero(lon)

\* MapUpdater, flowCoordinates: coord && coord.lat && coord.lon && !isNaN(..) && !isNaN(..)
BoundsFlowValid(coord) ==
    /\ coord.present
    /\ Truthy(coord.lat) /\ Truthy(coord.lon)
    /\ ~isNaN(coord.lat) /\ ~isNaN(coord.lon)

\* RouteMap, displayRoutes filter
SelectorFlowValid(coord) ==
    /\ coord.present
    /\ Truthy(coord.lat) /\ Truthy(coord.lon)
    /\ ~isNaN(coord.lat) /\ ~isNaN(coord.lon)

\* RouteMap, routeLines filter
PathFlowValid(coord) ==
    /\ coord.present
    /\ Truthy(coord.lat) /\ Truthy(coord.lon)
    /\ ~isNaN(coord.lat) /\ ~isNaN(coord.lon)

\* RouteMap, stopMarkers: !lat || !lon || isNaN(lat) || isNaN(lon) || lat === 0 || lon === 0
MarkerStopInvalid(lat, lon) ==
    \/ ~Truthy(lat) \/ ~Truthy(lon)
    \/ isNaN(lat) \/ isNaN(lon)
    \/ ~NotStrictZero(lat) \/ ~NotStrictZero(lon)

\* parseFloat(stop.stop?.latitude || "0"), parseFloat(stop.stop?.longitude || "0")
StopLat(stop) == parseFloat(OrZero(StopLatitude(stop)))
StopLon(stop) == parseFloat(OrZero(StopLongitude(stop)))

\* ------------------------------------------------------- getColorBySpeed
\* Speeds are in units of 0.0001 km/h: 37 is 370000 and 36.5 is 365000.

\* getColorBySpeed with the Fast threshold exclusive (> for >=).
getColorBySpeedExclusive(speed) ==
    IF speed > 370000 THEN "#22c55e"
    ELSE IF speed >= 365000 THEN "#eab308"
    ELSE "#ef4444"

getColorBySpeed(speed) ==
    IF speed >= 370000 THEN "#22c55e"
    ELSE IF speed >= 365000 THEN "#eab308"
    ELSE "#ef4444"

\* ------------------------------------------------------------ MapUpdater

RECURSIVE StopBounds(_)
StopBounds(stops) ==
    IF stops = <<>> THEN <<>>
    ELSE LET lat == StopLat(Head(stops))
             lon == StopLon(Head(stops))
         IN  (IF BoundsStopValid(lat, lon) THEN <<(<<lat, lon>>)>> ELSE <<>>)
             \o StopBounds(Tail(stops))

RECURSIVE FlowBounds(_)
FlowBounds(coords) ==
    IF coords = <<>> THEN <<>>
    ELSE (IF BoundsFlowValid(Head(coords))
          THEN <<(<<Head(coords).lat, Head(coords).lon>>)>> ELSE <<>>)
         \o FlowBounds(Tail(coords))

RECURSIVE VariantBounds(_)
VariantBounds(variants) ==
    IF variants = <<>> THEN <<>>
    ELSE (IF Head(variants).flowCoordinates.present
          THEN FlowBounds(Head(variants).flowCoordinates.items) ELSE <<>>)
         \o VariantBounds(Tail(variants))

\* One pass of routes.forEach: the route's stops, then its variants' coordinates.
RouteBounds(route) ==
    (IF route.stops.present THEN StopBounds(route.stops.items) ELSE <<>>)
    \o (IF route.routes.present THEN VariantBounds(route.routes.items) ELSE <<>>)

RECURSIVE bounds(_)
bounds(rts) ==
    IF rts = <<>> THEN <<>> ELSE RouteBounds(Head(rts)) \o bounds(Tail(rts))

\* The calls of map.fitBounds one run of the effect makes, as the sequence of
\* their arguments.
MapUpdaterEffect(rts) ==
    IF Len(rts) > 0
    THEN (IF Len(bounds(rts)) > 0 THEN <<bounds(rts)>> ELSE <<>>)
    ELSE <<>>

\* A render allocates a new array; its identity differs from the previous one.
FreshRef(ref) == IF ref = 1 THEN 2 ELSE 1

\* useEffect(..., [routes, map]): the effect runs when the routes dep is not
\* the identical array (the map instance never changes).
DepsChanged(oldRef, newRef) == oldRef # newRef

\* -------------------------------------------------------------- RouteMap

Min(a, b) == IF a < b THEN a ELSE b

\* Array.prototype.slice(from, to) for 0 <= from <= to
slice(s, from, to) == SubSeq(s, from + 1, Min(to, Len(s)))

\* The filter callback: route.routes?.some(variant => ... some(coord => valid))
HasValidFlow(route) ==
    /\ route.routes.present
    /\ \E i \in 1..Len(route.routes.items) :
          LET fc == route.routes.items[i].flowCoordinates
          IN  /\ fc.present
              /\ Len(fc.items) > 0
              /\ \E j \in 1..Len(fc.items) : SelectorFlowValid(fc.items[j])

\* displayRoutes without the .slice(0, 30).
DisplayRoutesUncapped(rts, sel) ==
    IF sel # <<>> THEN <<sel[1]>>
    ELSE SelectSeq(rts, HasValidFlow)

DisplayRoutes(rts, sel) ==
    IF sel # <<>> THEN <<sel[1]>>
    ELSE slice(SelectSeq(rts, HasValidFlow), 0, 30)

NullElement ==
    [kind |-> "null", key |-> <<>>, positions |-> <<>>, color |-> "", weight |-> 0,
     opacity |-> ""]

RECURSIVE PathCoordinates(_)
PathCoordinates(coords) ==
    IF coords = <<>> THEN <<>>
    ELSE (IF PathFlowValid(Head(coords))
          THEN <<(<<Head(coords).lat, Head(coords).lon>>)>> ELSE <<>>)
         \o PathCoordinates(Tail(coords))

\* The body of route.routes?.map((variant, idx) => ...); idx is 0-based.
RouteLine(route, variant, idx, sel) ==
    IF ~variant.flowCoordinates.present \/ Len(variant.flowCoordinates.items) = 0
    THEN NullElement
    ELSE LET coordinates == PathCoordinates(variant.flowCoordinates.items)
         IN  IF Len(coordinates) = 0 THEN NullElement
             ELSE [kind |-> "polyline",
                   key |-> <<route.id, idx>>,
                   positions |-> coordinates,
                   color |-> IF sel # <<>> THEN "#3b82f6" ELSE getColorBySpeed(route.avgSpeed),
                   weight |-> IF sel # <<>> THEN 5 ELSE 3,
                   opacity |-> IF sel # <<>> THEN "0.9" ELSE "0.6"]

routeLines(route, sel) ==
    IF ~route.routes.present THEN <<>>
    ELSE [i \in 1..Len(route.routes.items) |->
            RouteLine(route, route.routes.items[i], i - 1, sel)]

NullMarker ==
    [kind |-> "null", key |-> 0, position |-> <<>>, markerSize |-> 0, bgColor |-> "",
     animation |-> "", isFirst |-> FALSE, isLast |-> FALSE, isHub |-> FALSE]

\* The marker with isFirst tested before isHub in bgColor.
StopMarkerStartFirst(route, stop, stopIdx) ==
    LET lat == StopLat(stop)
        lon == StopLon(stop)
        isHub == StopIsHub(stop)
        isFirst == stopIdx = 0
        isLast == stopIdx = (IF route.stops.present THEN Len(route.stops.items) ELSE 0) - 1
    IN  IF MarkerStopInvalid(lat, lon) THEN NullMarker
        ELSE [kind |-> "marker",
              key |-> stop.id,
              position |-> <<lat, lon>>,
              markerSize |-> IF isHub THEN 24 ELSE IF isFirst \/ isLast THEN 20 ELSE 16,
              bgColor |-> IF isFirst THEN "#10b981"
                          ELSE IF isHub THEN "#ef4444"
                          ELSE IF isLast THEN "#f59e0b"
                          ELSE "#3b82f6",
              animation |-> IF isHub \/ isFirst \/ isLast
                            THEN "pulse 2s ease-in-out infinite" ELSE "none",
              isFirst |-> isFirst, isLast |-> isLast, isHub |-> isHub]

\* The body of route.stops?.map((stop, stopIdx) => ...); stopIdx is 0-based.
StopMarker(route, stop, stopIdx) ==
    LET lat == StopLat(stop)
        lon == StopLon(stop)
        isHub == StopIsHub(stop)
        isFirst == stopIdx = 0
        isLast == stopIdx = (IF route.stops.present THEN Len(route.stops.items) ELSE 0) - 1
    IN  IF MarkerStopInvalid(lat, lon) THEN NullMarker
        ELSE [kind |-> "marker",
              key |-> stop.id,
              position |-> <<lat, lon>>,
              markerSize |-> IF isHub THEN 24 ELSE IF isFirst \/ isLast THEN 20 ELSE 16,
              bgColor |-> IF isHub THEN "#ef4444"
                          ELSE IF isFirst THEN "#10b981"
                          ELSE IF isLast THEN "#f59e0b"
                          ELSE "#3b82f6",
              animation |-> IF isHub \/ isFirst \/ isLast
                            THEN "pulse 2s ease-in-out infinite" ELSE "none",
              isFirst |-> isFirst, isLast |-> isLast, isHub |-> isHub]

\* selectedRoute && route.stops?.map(...)
stopMarkers(route, sel) ==
    IF sel = <<>> \/ ~route.stops.present THEN <<>>
    ELSE [i \in 1..Len(route.stops.items) |->
            StopMarker(route, route.stops.items[i], i - 1)]

\* displayRoutes.map((route) => <div key={route.id}>{routeLines}{stopMarkers}</div>)
Overlays(dr, sel) ==
    [i \in 1..Len(dr) |->
        [key |-> dr[i].id,
         routeLines |-> routeLines(dr[i], sel),
         stopMarkers |-> stopMarkers(dr[i], sel)]]

\* ----------------------------------------------------------------- inputs
\* Route contents the parent may supply. Coordinates are small integers; the
\* first one is the specification's end-to-end scenario, a path with an
\* invalid point between two valid ones.

ShapeGood ==
    [avgSpeed |-> 370000,
     stops |-> Some(<<Stop(1, Location(Text(<<"1">>), Text(<<"2">>), "false")),
                      Stop(2, Location(Text(<<"x">>), Text(<<"1">>), "false")),
                      Stop(3, Location(Text(<<"2">>), Text(<<"1">>), "true")),
                      Stop(4, Location(Text(<<"2">>), Text(<<"2">>), "undefined")),
                      Stop(5, Location(Text(<<"1">>), Text(<<"1", "x">>), "false"))>>),
     routes |-> Some(<<Variant(Some(<<Coord(Num(1), Num(2)), Coord(Num(0), Num(0)),
                                      Coord(Num(3), Num(4))>>)),
                       Variant(Some(<<>>)),
                       Variant(Absent),
                       Variant(Some(<<Coord(Num(0), Num(2)), NullCoord>>))>>)]

ShapeSlow ==
    [avgSpeed |-> 364999,
     stops |-> Absent,
     routes |-> Some(<<Variant(Some(<<Coord(Num(2), Num(2))>>))>>)]

ShapeBad ==
    [avgSpeed |-> 365000,
     stops |-> Some(<<Stop(1, Location(NoText, Text(<<"1">>), "false")),
                      Stop(2, Location(Text(<<"1">>), Text(<<"0">>), "true")),
                      Stop(3, NoLocation),
                      Stop(4, Location(Text(<<"-", "0">>), Text(<<>>), "false"))>>),
     routes |-> Some(<<Variant(Some(<<Coord(Num(0), Num(0)), NullCoord, Coord(NaN, Num(1)),
                                      Coord(Num(1), Undefined), Coord(Null, Num(1))>>)),
                       Variant(Some(<<>>))>>)]

ShapeInf ==
    [avgSpeed |-> 0,
     stops |-> Some(<<Stop(1, Location(Text(<<"I">>), Text(<<"1">>), "false"))>>),
     routes |-> Some(<<Variant(Some(<<Coord(Infinity, Num(1))>>))>>)]

ShapeSingle ==
    [avgSpeed |-> 369999,
     stops |-> Some(<<Stop(1, Location(Text(<<"1">>), Text(<<"1">>), "true"))>>),
     routes |-> Absent]

Shapes == {ShapeGood, ShapeSlow, ShapeBad, ShapeInf, ShapeSingle}

\* The bulk of a loaded network: routes with valid geometry.
FillRoute(id) == MkRoute(id, ShapeSlow)

\* A route the parent holds that is in no routes prop.
ForeignRoute == MkRoute(99, ShapeGood)

Texts == UNION {[1..n -> Chars] : n \in 0..MaxText}
TextFields == {NoText} \cup {Text(s) : s \in Texts}

Numbers ==
    {Undefined, Null, NaN, Infinity, NegInfinity} \cup {Num(n) : n \in (0 - CoordSpan)..CoordSpan}
Coords == {NullCoord} \cup {Coord(lat, lon) : lat \in Numbers, lon \in Numbers}

Speeds ==
    {0, 0 - 370000}
    \cup {365000 + d : d \in (0 - SpeedSpan)..SpeedSpan}
    \cup {370000 + d : d \in (0 - SpeedSpan)..SpeedSpan}

NoProbe ==
    [kind |-> "none", lat |-> NoText, lon |-> NoText, coord |-> NullCoord, speed |-> 0,
     sites |-> {}, color |-> ""]

\* ------------------------------------------------------------ state machine

Init ==
    /\ mounted = FALSE
    /\ routes = <<>>
    /\ selectedRoute = <<>>
    /\ displayRoutes = <<>>
    /\ routesRef = 0
    /\ overlays = <<>>
    /\ fitCalls = 0
    /\ viewport = <<>>
    /\ probe = NoProbe

\* One render of RouteMap past the mounted check, and the commit that follows
\* it: displayRoutes is computed, the children are rendered, and MapUpdater's
\* effect runs if its routes dep changed.
Commit(rts, sel) ==
    LET dr == DisplayRoutes(rts, sel)
        ref == FreshRef(routesRef)
        calls == IF DepsChanged(routesRef, ref) THEN MapUpdaterEffect(dr) ELSE <<>>
    IN  /\ displayRoutes' = dr
        /\ routesRef' = ref
        /\ overlays' = Overlays(dr, sel)
        /\ fitCalls' = Len(calls)
        /\ viewport' = IF calls # <<>> THEN calls[Len(calls)] ELSE viewport

\* RouteMap called with props (rts, sel): the loading placeholder until mounted.
Render(rts, sel) ==
    IF mounted THEN Commit(rts, sel)
    ELSE UNCHANGED <<displayRoutes, routesRef, overlays, fitCalls, viewport>>

\* useEffect(() => setMounted(true), []) and the re-render it schedules.
Mount ==
    /\ ~mounted
    /\ mounted' = TRUE
    /\ Commit(routes, selectedRoute)
    /\ UNCHANGED <<routes, selectedRoute, probe>>

\* The parent passes a routes prop with one more route.
AppendRoute ==
    \E shape \in Shapes :
        /\ Len(routes) < MaxFree
        /\ LET rts == Append(routes, MkRoute(Len(routes) + 1, shape))
           IN  routes' = rts /\ Render(rts, selectedRoute)
        /\ UNCHANGED <<mounted, selectedRoute, probe>>

\* The parent passes a routes prop extended to n routes.
LoadNetwork ==
    \E n \in (MaxRoutes - 1)..MaxRoutes :
        /\ Len(routes) <= MaxFree
        /\ LET rts == routes \o [i \in 1..(n - Len(routes)) |-> FillRoute(Len(routes) + i)]
           IN  routes' = rts /\ Render(rts, selectedRoute)
        /\ UNCHANGED <<mounted, selectedRoute, probe>>

\* The parent passes an empty routes prop.
ClearRoutes ==
    /\ routes # <<>>
    /\ routes' = <<>>
    /\ Render(<<>>, selectedRoute)
    /\ UNCHANGED <<mounted, selectedRoute, probe>>

\* The parent passes a selectedRoute: one of the supplied routes or another.
SelectRoute ==
    \E r \in {routes[i] : i \in 1..Min(Len(routes), MaxFree + 1)} \cup {ForeignRoute} :
        /\ selectedRoute # <<r>>
        /\ selectedRoute' = <<r>>
        /\ Render(routes, <<r>>)
        /\ UNCHANGED <<mounted, routes, probe>>

\* The parent passes selectedRoute = null.
Deselect ==
    /\ selectedRoute # <<>>
    /\ selectedRoute' = <<>>
    /\ Render(routes, <<>>)
    /\ UNCHANGED <<mounted, routes, probe>>

\* The parent re-renders RouteMap with the same props.
Rerender ==
    /\ mounted
    /\ Commit(routes, selectedRoute)
    /\ UNCHANGED <<mounted, routes, selectedRoute, probe>>

Next ==
    \/ Mount
    \/ AppendRoute
    \/ LoadNetwork
    \/ ClearRoutes
    \/ SelectRoute
    \/ Deselect
    \/ Rerender

Spec == Init /\ [][Next]_vars

\* ------------------------------------------------- the predicates, applied
\* Each coordinate check applied through its call site to one stop or one
\* flow coordinate, and getColorBySpeed applied to one speed.

component == <<mounted, routes, selectedRoute, displayRoutes, routesRef, overlays,
               fitCalls, viewport>>

ProbeRoute(stops, coords) ==
    MkRoute(1, [avgSpeed |-> 0, stops |-> Some(stops),
                routes |-> Some(<<Variant(Some(coords))>>)])

ProbeStop ==
    /\ probe.kind = "none"
    /\ \E lat \in TextFields, lon \in TextFields :
        /\ LET stop == Stop(1, Location(lat, lon, "false"))
               route == ProbeRoute(<<stop>>, <<>>)
           IN  probe' = [NoProbe EXCEPT
                   !.kind = "stop", !.lat = lat, !.lon = lon,
                   !.sites = (IF MapUpdaterEffect(<<route>>) # <<>> THEN {"bounds"} ELSE {})
                             \cup (IF stopMarkers(route, <<route>>)[1].kind = "marker"
                                   THEN {"marker"} ELSE {})]
        /\ UNCHANGED component

ProbeFlow ==
    /\ probe.kind = "none"
    /\ \E coord \in Coords :
        /\ LET route == ProbeRoute(<<>>, <<coord>>)
           IN  probe' = [NoProbe EXCEPT
                   !.kind = "flow", !.coord = coord,
                   !.sites = (IF DisplayRoutes(<<route>>, <<>>) # <<>> THEN {"selector"} ELSE {})
                             \cup (IF MapUpdaterEffect(<<route>>) # <<>> THEN {"bounds"} ELSE {})
                             \cup (IF routeLines(route, <<>>)[1].kind = "polyline"
                                   THEN {"path"} ELSE {})]
        /\ UNCHANGED component

ProbeSpeed ==
    /\ probe.kind = "none"
    /\ \E speed \in Speeds :
        /\ probe' = [NoProbe EXCEPT
               !.kind = "speed", !.speed = speed, !.color = getColorBySpeed(speed)]
        /\ UNCHANGED component

ProbeReset ==
    /\ probe.kind # "none"
    /\ probe' = NoProbe
    /\ UNCHANGED component

NextProbe == ProbeStop \/ ProbeFlow \/ ProbeSpeed \/ ProbeReset

SpecProbe == Init /\ [][NextProbe]_vars

\* ------------------------------------------------------------------ claims
\* The specification's notion of a valid coordinate, stated on its own: both
\* components are finite numbers and neither is zero.

Range(seq) == {seq[i] : i \in DOMAIN seq}

FiniteNonZero(x) == x.k = "num" /\ x.v # 0

ValidPair(lat, lon) == FiniteNonZero(lat) /\ FiniteNonZero(lon)

\* A stop location is valid when both texts are there and parse to such a pair.
ValidStop(stop) ==
    /\ stop.stop.present
    /\ stop.stop.latitude.has /\ stop.stop.longitude.has
    /\ ValidPair(parseFloat(stop.stop.latitude.s), parseFloat(stop.stop.longitude.s))

StopPoint(stop) == <<parseFloat(stop.stop.latitude.s), parseFloat(stop.stop.longitude.s)>>

ValidFlow(coord) == coord.present /\ ValidPair(coord.lat, coord.lon)

StopsOf(route) == IF route.stops.present THEN route.stops.items ELSE <<>>
VariantsOf(route) == IF route.routes.present THEN route.routes.items ELSE <<>>
CoordsOf(variant) ==
    IF variant.flowCoordinates.present THEN variant.flowCoordinates.items ELSE <<>>

HasValidGeometry(route) ==
    \E v \in Range(VariantsOf(route)) : \E c \in Range(CoordsOf(v)) : ValidFlow(c)

\* Every valid point of a route set: stop locations and flow coordinates.
ValidPoints(rts) ==
    UNION {{StopPoint(st) : st \in {x \in Range(StopsOf(r)) : ValidStop(x)}}
           \cup UNION {{<<c.lat, c.lon>> : c \in {x \in Range(CoordsOf(v)) : ValidFlow(x)}}
                       : v \in Range(VariantsOf(r))}
           : r \in Range(rts)}

FirstN(seq, n) == SubSeq(seq, 1, IF Len(seq) < n THEN Len(seq) ELSE n)

\* C1: with a selection the active set is exactly <<selectedRoute>>;
\* otherwise it is the routes that have a path variant with a valid flow
\* coordinate, in supplied order, cut to the first 30.
C1_RenderSelector ==
    mounted =>
        IF selectedRoute # <<>>
        THEN displayRoutes = <<selectedRoute[1]>>
        ELSE displayRoutes = FirstN(SelectSeq(routes, HasValidGeometry), 30)

\* C2: a commit issues at most one fit command, and none when the active set
\* has the same content as in the previous commit.
C2_NoRedundantFit ==
    [][/\ fitCalls' <= 1
       /\ (mounted /\ mounted' /\ displayRoutes' = displayRoutes) => fitCalls' = 0]_vars

\* C3, as stated: the rendered routes are always among the supplied routes,
\* at most 30 of them without a selection, the selected route alone with one.
C3_RenderedSubsetOfSupplied ==
    mounted =>
        /\ Range(displayRoutes) \subseteq Range(routes)
        /\ selectedRoute = <<>> => Len(displayRoutes) <= 30
        /\ selectedRoute # <<>> => displayRoutes = <<selectedRoute[1]>>

\* C3, amended: without a selection the rendered routes are among the supplied
\* routes and at most 30; with a selection exactly the selected route is
\* rendered, whether or not it is one of the supplied routes.
C3_RenderedSubsetOrSelected ==
    mounted =>
        /\ Len(overlays) = Len(displayRoutes)
        /\ \A i \in DOMAIN overlays : overlays[i].key = displayRoutes[i].id
        /\ selectedRoute = <<>> =>
               /\ Range(displayRoutes) \subseteq Range(routes)
               /\ Len(displayRoutes) <= 30
        /\ selectedRoute # <<>> =>
               /\ displayRoutes = <<selectedRoute[1]>>
               /\ (Range(displayRoutes) \subseteq Range(routes))
                      <=> (selectedRoute[1] \in Range(routes))

\* A selected route that is not supplied is rendered alone, beside a routes
\* prop that reaches past the cap.
C3_Witness ==
    /\ mounted
    /\ selectedRoute = <<ForeignRoute>>
    /\ displayRoutes = <<ForeignRoute>>
    /\ Len(routes) > 30
    /\ ForeignRoute \notin Range(routes)

\* The cap at work: more than 30 supplied routes with geometry, 30 rendered.
C3_WitnessCap ==
    /\ mounted
    /\ selectedRoute = <<>>
    /\ Len(SelectSeq(routes, HasValidGeometry)) > 30
    /\ Len(displayRoutes) = 30

\* C4: a commit whose active set has no valid stop location and no valid flow
\* coordinate issues no fit command and leaves the viewport as it was.
C4_EmptyBoundsNoFit ==
    [][(mounted' /\ ValidPoints(displayRoutes') = {})
          => (fitCalls' = 0 /\ viewport' = viewport)]_vars

\* C5: for an active set with a valid point, the points the fit region is
\* derived from are exactly the valid stop locations and valid flow
\* coordinates of the set: every valid one and no invalid one.
C5_BoundsAreTheValidPoints ==
    (mounted /\ fitCalls > 0 /\ ValidPoints(displayRoutes) # {})
        => Range(viewport) = ValidPoints(displayRoutes)

\* C6: at every call site a pair is accepted iff both components parse to
\* finite numbers and neither is zero.
C6_CoordinateValidity ==
    /\ probe.kind = "stop" =>
           probe.sites = IF ValidStop(Stop(1, Location(probe.lat, probe.lon, "false")))
                         THEN {"bounds", "marker"} ELSE {}
    /\ probe.kind = "flow" =>
           probe.sites = IF ValidFlow(probe.coord)
                         THEN {"selector", "bounds", "path"} ELSE {}

RECURSIVE ValidPath(_)
ValidPath(coords) ==
    IF coords = <<>> THEN <<>>
    ELSE (IF ValidFlow(Head(coords)) THEN <<(<<Head(coords).lat, Head(coords).lon>>)>> ELSE <<>>)
         \o ValidPath(Tail(coords))

\* C7: each path variant of each active route yields one path overlay when it
\* has a valid flow coordinate and none otherwise, and the overlay's geometry
\* is the variant's valid coordinates in their order.
C7_PathOverlays ==
    mounted =>
        \A i \in DOMAIN displayRoutes :
            LET variants == VariantsOf(displayRoutes[i])
                lines == overlays[i].routeLines
            IN  /\ Len(lines) = Len(variants)
                /\ \A j \in DOMAIN variants :
                       IF ValidPath(CoordsOf(variants[j])) # <<>>
                       THEN /\ lines[j].kind = "polyline"
                            /\ lines[j].positions = ValidPath(CoordsOf(variants[j]))
                       ELSE lines[j].kind = "null"

\* The markers of an array of rendered stop markers, nulls dropped.
RECURSIVE Markers(_)
Markers(ms) ==
    IF ms = <<>> THEN <<>>
    ELSE (IF Head(ms).kind = "marker" THEN <<[key |-> Head(ms).key, position |-> Head(ms).position]>>
          ELSE <<>>)
         \o Markers(Tail(ms))

RECURSIVE ValidStopMarkers(_)
ValidStopMarkers(stops) ==
    IF stops = <<>> THEN <<>>
    ELSE (IF ValidStop(Head(stops))
          THEN <<[key |-> Head(stops).id, position |-> StopPoint(Head(stops))]>> ELSE <<>>)
         \o ValidStopMarkers(Tail(stops))

\* C8: a rendered stop is Start iff it is first and End iff it is last in the
\* full stop sequence, Hub iff flagged; size and colour follow the precedence
\* Hub, Start, End, Regular, and the marker is animated iff it has a role.
C8_StopRoles ==
    (mounted /\ selectedRoute # <<>>) =>
        LET stops == StopsOf(selectedRoute[1])
            ms == overlays[1].stopMarkers
        IN  \A i \in DOMAIN ms :
                ms[i].kind = "marker" =>
                    LET start == i = 1
                        end == i = Len(stops)
                        hub == stops[i].stop.present /\ stops[i].stop.isTransportHub = "true"
                        tier == IF hub THEN "hub" ELSE IF start THEN "start"
                                ELSE IF end THEN "end" ELSE "regular"
                    IN  /\ ms[i].isFirst = start
                        /\ ms[i].isLast = end
                        /\ ms[i].isHub = hub
                        /\ ms[i].markerSize =
                               CASE tier = "hub" -> 24 [] tier = "start" -> 20
                                 [] tier = "end" -> 20 [] tier = "regular" -> 16
                        /\ ms[i].bgColor =
                               CASE tier = "hub" -> "#ef4444" [] tier = "start" -> "#10b981"
                                 [] tier = "end" -> "#f59e0b" [] tier = "regular" -> "#3b82f6"
                        /\ (ms[i].animation # "none") <=> (hub \/ start \/ end)

\* A selected route's first stop is also a hub and is drawn as a hub.
C8_Witness ==
    /\ mounted
    /\ selectedRoute # <<>>
    /\ \E i \in DOMAIN overlays[1].stopMarkers :
           LET m == overlays[1].stopMarkers[i]
           IN  m.kind = "marker" /\ m.isHub /\ m.isFirst /\ m.isLast /\ m.bgColor = "#ef4444"

\* C9: a speed is Fast (green) iff it is at least 37, Medium (yellow) iff it
\* is at least 36.5 and below 37, Slow (red) iff it is below 36.5.
C9_ClassifierTiers ==
    probe.kind = "speed" =>
        /\ (probe.color = "#22c55e") <=> (probe.speed >= 370000)
        /\ (probe.color = "#eab308") <=> (probe.speed >= 365000 /\ probe.speed < 370000)
        /\ (probe.color = "#ef4444") <=> (probe.speed < 365000)
        /\ probe.color \in {"#22c55e", "#eab308", "#ef4444"}

\* The speed 36.5 has been classified, as Medium.
C9_Witness ==
    probe.kind = "speed" /\ probe.speed = 365000 /\ probe.color = "#eab308"

\* C10: without a selection no stop marker is rendered; with one, the markers
\* are those of the selected route's valid stops, one each, in stop order.
C10_PointOverlays ==
    mounted =>
        \A i \in DOMAIN displayRoutes :
            Markers(overlays[i].stopMarkers) =
                IF selectedRoute = <<>> THEN <<>>
                ELSE ValidStopMarkers(StopsOf(displayRoutes[i]))

====
